---- MODULE Spec2Model ----
(***************************************************************************)
(* Model of the AI request pipeline of kingdom-gpt-hosting:                *)
(*   - the orchestrator's POST /process and POST /stream handlers          *)
(*     (routes/ai.js of the ai-orchestrator),                              *)
(*   - OpenAIProvider.generateTextStream's chunk loop,                     *)
(*   - the gateway's checkSubscriptionLimits middleware and its AI routes, *)
(*   - AIOrchestrator.initialize (hardware detection, model registration,  *)
(*     auto-assignment) and the hourly cleanupOldJobs task.                *)
(* Every await of a handler is one step, so that handlers of different     *)
(* requests interleave as they do on the event loop; handlers share only   *)
(* the tables and the channel, and a job row is touched by its own request *)
(* alone.  The storage layer and redis are taken to answer every statement *)
(* (RedisClient.publish swallows its own errors).  The server only listens *)
(* after AIOrchestrator.initialize() has completed, so isInitialized() is  *)
(* true in every handler run.                                              *)
(***************************************************************************)
EXTENDS Integers, Sequences, FiniteSets, TLC

\* ------------------------------------------------------------------ bounds
NumReqs == 1
\* fragments the providers stream, over all requests
MaxChunks == 2
\* requests that are at the gateway at the same time
NumClients == 2
\* job rows followed through retention
MaxJobs == 2
\* runs of each scheduled task that are followed
MaxRuns == 2

Reqs == 1..NumReqs

\* --------------------------------------------------------- SQL NULL / values
Null == <<>>
Some(v) == <<v>>

\* ------------------------------------------------------- request inputs
NoModel == "<none>"
RequestedModels == {NoModel, "gpt-4", "llama2-7b", "mixtral-8x7b", "ghost"}
\* prompt lengths around the validator's limits
MaxPromptLen == 10000
PromptLens == {0, 1, MaxPromptLen, MaxPromptLen + 1}
\* text the providers can return
Fragments == {"Hi", "Hello"}
\* response.usage.total_tokens values reported by the hosted API
TokenCounts == {500}
\* error messages a provider call can raise
ProviderErrors == {"Rate limit exceeded"}

VARIABLES
  ai_models,        \* table ai_models: the set of its rows
  providers,        \* orchestrator.providers: names of the registered adapters
  streamCapable,    \* registered adapters that define generateTextStream
  assigned_models,  \* redis key assigned_models (Null when absent)
  pc,               \* per request: position of its handler
  req,              \* per request: mode, requested model, whether the prompt
                    \* satisfies the validator
  sel,              \* per request: selectedModel
  ai_jobs,          \* table ai_jobs: job id -> row (a request's uuid is its id)
  inserts,          \* per request: number of INSERT INTO ai_jobs executed
  generateCalls,    \* per request: number of provider generate calls made
  thrown,           \* per request: the error the provider call raised
  result,           \* per request: the provider's result object
  published,        \* messages published on the channel ai_job_updates
  resp,             \* per request: the JSON response sent (Null before)
  events,           \* per request: res.write calls of the event stream
  ended,            \* per request: res.end() was called
  clientGone,       \* per request: the client has disconnected
  produced,         \* per request: non-empty fragments the provider stream yielded
  consumedAfterGone, \* per request: a stream item was taken after the disconnect
  quota,            \* one run of the checkSubscriptionLimits middleware
  now,              \* the clock, in hours
  boot,             \* AIOrchestrator.initialize: position and detection outcome
  hardwareInfo,     \* HardwareDetector.hardwareInfo (the gpu entry)
  modelConfig,      \* the model configuration loadModels obtained
  category,         \* the hardware category autoAssignModels computed
  uniqueName,       \* whether ai_models has a unique index on name
  tenants,          \* table tenants: tenant id -> row
  backlog,          \* per tenant: further job rows of the current month
  gw,               \* per gateway client: its request at the gateway
  jobsResp,         \* the last answer of a job query (Null before)
  purged,           \* ids of the job rows cleanupOldJobs has deleted
  terminalAt,       \* per followed job: when it became completed or failed
  model_availability, \* redis hash model_availability: name -> boolean
  probed,           \* availability probes made by the last refresh run
  tasks             \* the scheduled tasks and the process they run in

vars == <<ai_models, providers, streamCapable, assigned_models, pc, req, sel,
          ai_jobs, inserts, generateCalls, thrown, result, published, resp,
          events, ended, clientGone, produced, consumedAfterGone, quota,
          now, boot, hardwareInfo, modelConfig, category, uniqueName,
          tenants, backlog, gw, jobsResp, purged, terminalAt,
          model_availability, probed, tasks>>

bootVars == <<boot, hardwareInfo, modelConfig, category, uniqueName>>
gatewayVars == <<tenants, backlog, gw>>
retentionVars == <<purged, terminalAt>>
taskVars == <<model_availability, probed, tasks>>
otherVars == <<jobsResp, retentionVars, taskVars>>

envVars == <<ai_models, providers, streamCapable, assigned_models>>

\* ------------------------------------------------------------ pure helpers
\* express-validator: body('prompt').isLength({ min: 1, max: 10000 })
ValidPrompt(len) == len >= 1 /\ len <= MaxPromptLen

\* SELECT * FROM ai_models WHERE name = $1 AND is_active = true
ActiveModelRows(models, name) ==
  LET rows == {m \in models : m.name = name /\ m.is_active}
  IN IF rows = {} THEN <<>> ELSE <<CHOOSE m \in rows : TRUE>>

\* AIOrchestrator.getProvider: this.providers[providerName]
getProviderLoose(registered, providerName) == Some(providerName)

getProvider(registered, providerName) ==
  IF providerName \in registered THEN Some(providerName) ELSE Null

\* redis.get('assigned_models') || ['gpt-3.5-turbo'], then availableModels[0]
Undefined == "undefined"
DefaultModel == "gpt-3.5-turbo"
FirstAssigned(cached) ==
  LET availableModels == IF cached = Null THEN <<DefaultModel>> ELSE cached[1]
  IN IF Len(availableModels) = 0 THEN Undefined ELSE availableModels[1]

\* OpenAIProvider.calculateCost, in millionths of a dollar per token
Pricing(model) ==
  CASE model = "gpt-4" -> 30
    [] model = "gpt-4-turbo" -> 10
    [] model = "gpt-3.5-turbo" -> 2
    [] model = "gpt-3.5-turbo-16k" -> 4
    [] OTHER -> 2
calculateCost(model, tokens) == tokens * Pricing(model)

\* self-hosted adapters report zero cost
LocalCost(model, tokens) == 0

ProviderCost(provider, model, tokens) ==
  IF provider = "openai" THEN calculateCost(model, tokens)
  ELSE LocalCost(model, tokens)

\* OpenAIProvider.estimateTokens: Math.ceil(text.length / 4)
estimateTokensFloor(text) == Len(text) \div 4

estimateTokens(text) == (Len(text) + 3) \div 4

\* ------------------------------------------------------------ job rows
\* req.headers['x-tenant-id'] of request r
Tenants == {"tenant-A", "tenant-B"}
TenantHeader(r) == Some(IF r % 2 = 1 THEN "tenant-A" ELSE "tenant-B")

\* INSERT INTO ai_jobs (...) VALUES (...): created_at defaults to NOW(), the
\* other columns not named to NULL
NewJob(tenantId, status, modelId) ==
  [tenant_id |-> tenantId, status |-> status, model_id |-> modelId,
   response |-> Null, tokens_used |-> Null, cost |-> Null,
   error_message |-> Null, processing_time |-> Null, created_at |-> now,
   completed_at |-> Null]

\* UPDATE ai_jobs SET status = 'failed', error_message = $2 WHERE id = $3
UpdateJobUnavailable(job, msg) ==
  [job EXCEPT !.status = "failed", !.error_message = Some(msg)]

\* UPDATE ai_jobs SET status = 'processing', model_id = $2 WHERE id = $3
UpdateJobProcessingModelOnly(job, modelId) ==
  [job EXCEPT !.model_id = Some(modelId)]

UpdateJobProcessing(job, modelId) ==
  [job EXCEPT !.status = "processing", !.model_id = Some(modelId)]

\* UPDATE ai_jobs SET status = 'completed', response, tokens_used, cost,
\*   processing_time, completed_at = NOW() WHERE id = $6
UpdateJobCompletedNoCost(job, res) ==
  [job EXCEPT !.status = "completed", !.response = Some(res.response),
              !.tokens_used = Some(res.total_tokens),
              !.processing_time = Some("elapsed"),
              !.completed_at = Some(now)]

UpdateJobCompleted(job, res) ==
  [job EXCEPT !.status = "completed", !.response = Some(res.response),
              !.tokens_used = Some(res.total_tokens), !.cost = Some(res.cost),
              !.processing_time = Some("elapsed"),
              !.completed_at = Some(now)]

\* UPDATE ai_jobs SET status = 'failed', error_message = $2,
\*   processing_time = $3, completed_at = NOW() WHERE id = $4
UpdateJobFailedKeepStatus(job, msg) ==
  [job EXCEPT !.error_message = Some(msg),
              !.processing_time = Some("elapsed"),
              !.completed_at = Some(now)]

UpdateJobFailed(job, msg) ==
  [job EXCEPT !.status = "failed", !.error_message = Some(msg),
              !.processing_time = Some("elapsed"),
              !.completed_at = Some(now)]

\* the UPDATE statements address the row by id: no row, no change
SetRow(jobs, id, row) ==
  IF id \in DOMAIN jobs THEN [jobs EXCEPT ![id] = row] ELSE jobs

\* RedisClient.publish(channel, message) on the channel ai_job_updates; a
\* failure of the redis client is caught there and the message is lost.
publishThrowsWhenFailed(failed) == failed

publishThrows(failed) == FALSE

Publish(channel, jobId, status, error) ==
  channel \cup {[jobId |-> jobId, status |-> status, error |-> error]}

\* res.write(`data: ${JSON.stringify(event)}\n\n`): the event is appended to
\* the response stream (and reaches the client only while the client is there).
EventAnonymous(type, jobId, content, tokenCount) ==
  [type |-> type, jobId |-> Null, content |-> content,
   tokenCount |-> tokenCount]

Event(type, jobId, content, tokenCount) ==
  [type |-> type, jobId |-> jobId, content |-> content,
   tokenCount |-> tokenCount]

resWrite(written, event) == Append(written, event)

\* http.ServerResponse.write with a string chunk does not throw when the
\* socket is closed: it returns false and the chunk is dropped.
resWriteThrowsWhenGone(gone) == gone

resWriteThrows(gone) == FALSE

Response(code, error, message, data) ==
  [code |-> code, error |-> error, message |-> message, data |-> data]

\* ------------------------------------------------------------------ time
\* The clock counts hours; a month of 31 days is followed by another one.
HoursPerDay == 24
MonthDays == 31
MonthHours == MonthDays * HoursPerDay
\* INTERVAL '30 days'
RetentionDays == 30
RetentionHours == RetentionDays * HoursPerDay

\* const startOfMonth = new Date(); startOfMonth.setDate(1);
\* startOfMonth.setHours(0, 0, 0, 0)
startOfMonth(t) == (t \div MonthHours) * MonthHours

\* the instants the clock visits: the first two hours of a month, the hours
\* around the end of the retention interval, and the start of the next month
Times == {0, 1, RetentionHours, RetentionHours + 1, MonthHours, MonthHours + 1}

\* SELECT COUNT(*) as count FROM ai_jobs WHERE tenant_id = $1 AND
\*   created_at >= $2
CurrentUsageCompletedOnly(jobs, tenant, t) ==
  Cardinality({id \in DOMAIN jobs :
                 /\ jobs[id].tenant_id = Some(tenant)
                 /\ jobs[id].created_at >= startOfMonth(t)
                 /\ jobs[id].status = "completed"})

CurrentUsage(jobs, tenant, t) ==
  Cardinality({id \in DOMAIN jobs :
                 /\ jobs[id].tenant_id = Some(tenant)
                 /\ jobs[id].created_at >= startOfMonth(t)})

\* WHERE status IN ('completed', 'failed')
\*   AND completed_at < NOW() - INTERVAL '30 days'
\* (a comparison with a NULL completed_at is not true)
PurgeableNoInterval(job, t) ==
  /\ job.status \in {"completed", "failed"}
  /\ job.completed_at # Null
  /\ job.completed_at[1] < t

Purgeable(job, t) ==
  /\ job.status \in {"completed", "failed"}
  /\ job.completed_at # Null
  /\ job.completed_at[1] < t - RetentionHours

\* --------------------------------------------------------------- hardware
Categories == {"cpu_only", "gpu_4gb", "gpu_8gb", "gpu_16gb"}

\* gpu.vram of the first graphics controller, in MB (0: not reported)
VramMB == {0, 400, 4096, 4608, 8192, 8704, 16384}
\* what si.graphics() can do: reject, report no controller, report one
GraphicsProbes ==
  {[kind |-> "error", vram |-> 0], [kind |-> "none", vram |-> 0]}
  \cup {[kind |-> "controller", vram |-> v] : v \in VramMB}

\* gpu.vram ? Math.round(gpu.vram / 1024) : 0
GpuMemoryGB(vram) == IF vram = 0 THEN 0 ELSE (vram + 512) \div 1024

\* hardwareInfo.gpu after the graphics probe
DetectedGpu(probe) ==
  IF probe.kind = "controller"
  THEN Some([memory |-> GpuMemoryGB(probe.vram)]) ELSE Null

\* autoAssignModels: the category of the detected hardware
CategoryBelow(hardware) ==
  LET gpuMemory == IF hardware.gpu # Null THEN hardware.gpu[1].memory ELSE 0
  IN IF hardware.gpu = Null \/ gpuMemory = 0 THEN "cpu_only"
     ELSE IF gpuMemory < 4 THEN "gpu_4gb"
     ELSE IF gpuMemory < 8 THEN "gpu_8gb"
     ELSE "gpu_16gb"

Category(hardware) ==
  LET gpuMemory == IF hardware.gpu # Null THEN hardware.gpu[1].memory ELSE 0
  IN IF hardware.gpu = Null \/ gpuMemory = 0 THEN "cpu_only"
     ELSE IF gpuMemory <= 4 THEN "gpu_4gb"
     ELSE IF gpuMemory <= 8 THEN "gpu_8gb"
     ELSE "gpu_16gb"

\* ---------------------------------------------------- model configuration
\* one entry of modelConfig.models.<section>; costs in millionths of a dollar
ModelSpec(name, provider, tier, cost) ==
  [name |-> name, provider |-> provider, performance_tier |-> tier,
   cost_per_token |-> cost]

\* getDefaultModelConfig()
DefaultModelConfig ==
  [models |->
     [openai |-> <<ModelSpec("gpt-4", "openai", "high", Some(30)),
                   ModelSpec("gpt-3.5-turbo", "openai", "medium", Some(2))>>,
      local |-> <<ModelSpec("llama2-7b", "local", "medium", Null),
                  ModelSpec("llama2-13b", "local", "high", Null)>>],
   auto_assignment |->
     [cpu_only |-> <<"gpt-3.5-turbo">>,
      gpu_4gb |-> <<"llama2-7b", "gpt-3.5-turbo">>,
      gpu_8gb |-> <<"llama2-7b", "llama2-13b", "gpt-4">>,
      gpu_16gb |-> <<"llama2-7b", "llama2-13b", "gpt-4">>]]

\* a config/models/model-config.json that reprices gpt-4, serves llama2-7b
\* through another provider and assigns for two categories only
RepricedModelConfig ==
  [models |->
     [openai |-> <<ModelSpec("gpt-4", "openai", "high", Some(60))>>,
      local |-> <<ModelSpec("llama2-7b", "huggingface", "medium", Null)>>],
   auto_assignment |->
     [cpu_only |-> <<"gpt-4">>,
      gpu_4gb |-> <<"llama2-7b", "gpt-4">>]]

\* a config/models/model-config.json whose cpu_only list is empty
EmptyListModelConfig ==
  [DefaultModelConfig EXCEPT !.auto_assignment.cpu_only = <<>>]

ModelConfigs == {DefaultModelConfig, RepricedModelConfig, EmptyListModelConfig}

\* registerModels: the models array, the openai section first, then the
\* local section with cost_per_token 0
RegistrationList(config) ==
  config.models.openai \o
  [i \in DOMAIN config.models.local |->
     [config.models.local[i] EXCEPT !.cost_per_token = Some(0)]]

\* INSERT INTO ai_models (...) VALUES (...) ON CONFLICT (name) DO UPDATE SET
\*   configuration, performance_tier, cost_per_token, max_tokens, updated_at
\* for every entry of the list; is_active defaults to TRUE on insert.
UpsertModels(models, list) ==
  LET specs == {list[i] : i \in DOMAIN list}
      specOf(name) == CHOOSE m \in specs : m.name = name
      named == {m.name : m \in specs}
      present == {row.name : row \in models}
  IN {IF row.name \in named
      THEN [row EXCEPT
              !.performance_tier = specOf(row.name).performance_tier,
              !.cost_per_token = specOf(row.name).cost_per_token]
      ELSE row : row \in models}
     \cup
     {[id |-> m.name, name |-> m.name, provider |-> m.provider,
       performance_tier |-> m.performance_tier,
       cost_per_token |-> m.cost_per_token, is_active |-> TRUE] :
        m \in {x \in specs : x.name \notin present}}

\* modelConfig.auto_assignment[category] || modelConfig.auto_assignment.cpu_only
AssignedModels(config, cat) ==
  IF cat \in DOMAIN config.auto_assignment
  THEN config.auto_assignment[cat] ELSE config.auto_assignment.cpu_only

\* ------------------------------------------------------------ initial state
\* The registry after startup (seed rows and registerModels), with one row an
\* operator has deactivated.
ModelRow(name, provider, tier, cost, active) ==
  [id |-> name, name |-> name, provider |-> provider,
   performance_tier |-> tier, cost_per_token |-> Some(cost),
   is_active |-> active]

SeedModels ==
  {ModelRow("gpt-4", "openai", "high", 30, TRUE),
   ModelRow("gpt-3.5-turbo", "openai", "medium", 2, TRUE),
   ModelRow("llama2-7b", "local", "medium", 0, TRUE),
   ModelRow("mixtral-8x7b", "local", "very_high", 0, FALSE)}

NoQuota == [plan |-> "free", feature |-> "ai_requests_per_month", usage |-> 0,
            outcome |-> "none"]

\* AIOrchestrator.initializeProviders: openai only with OPENAI_API_KEY, local
\* always; whether the local adapter defines generateTextStream is left open.
InitEnv ==
  /\ ai_models = SeedModels
  /\ providers \in {{"local"}, {"openai", "local"}}
  /\ streamCapable \in {providers \ {"local"}, providers}
  /\ assigned_models = Some(<<"gpt-3.5-turbo">>)

\* no request has arrived
InitHandlers ==
  /\ pc = [r \in Reqs |-> "idle"]
  /\ req = [r \in Reqs |-> Null]
  /\ sel = [r \in Reqs |-> [name |-> Null, info |-> Null]]
  /\ inserts = [r \in Reqs |-> 0]
  /\ generateCalls = [r \in Reqs |-> 0]
  /\ thrown = [r \in Reqs |-> Null]
  /\ result = [r \in Reqs |-> Null]
  /\ published = {}
  /\ resp = [r \in Reqs |-> Null]
  /\ events = [r \in Reqs |-> <<>>]
  /\ ended = [r \in Reqs |-> FALSE]
  /\ clientGone = [r \in Reqs |-> FALSE]
  /\ produced = [r \in Reqs |-> <<>>]
  /\ consumedAfterGone = [r \in Reqs |-> FALSE]

InitReqs == InitHandlers /\ ai_jobs = <<>>

\* Startup has completed on a host without GPU, with the default configuration.
BootReady == [pc |-> "ready", detection |-> "ok"]
InitBooted ==
  /\ boot = BootReady
  /\ hardwareInfo = [gpu |-> Null]
  /\ modelConfig = DefaultModelConfig
  /\ category = Some("cpu_only")
  /\ uniqueName = TRUE

\* gateway clients
Clients == 1..NumClients
\* No request is at the gateway.
InitNoGateway ==
  /\ tenants = [t \in Tenants |-> [subscription_plan |-> "free"]]
  /\ backlog = [t \in Tenants |-> 0]
  /\ gw = [c \in Clients |-> Null]

\* the job rows followed through their life, one request each
JobIds == 1..MaxJobs
\* the three scheduled tasks
TaskNames == {"availability", "cleanup", "updates"}
\* No query answered, nothing purged, no refresh run, every task scheduled.
InitOther ==
  /\ jobsResp = Null
  /\ purged = {}
  /\ terminalAt = [j \in JobIds |-> Null]
  /\ model_availability = <<>>
  /\ probed = <<>>
  /\ tasks = [alive |-> TRUE, scheduled |-> TaskNames,
              runs |-> [t \in TaskNames |-> 0],
              failures |-> [t \in TaskNames |-> 0],
              last |-> [t \in TaskNames |-> "none"]]

Init ==
  /\ InitEnv /\ InitReqs /\ quota = NoQuota
  /\ now = 0 /\ InitBooted /\ InitNoGateway /\ InitOther

streamVars == <<events, ended, clientGone, produced, consumedAfterGone>>

\* ------------------------------------------------- POST /process (sync path)
\* Validation, then INSERT INTO ai_jobs ... 'pending'.
ProcessStart(r) ==
  /\ pc[r] = "idle"
  /\ \E m \in RequestedModels, len \in PromptLens :
       /\ req' = [req EXCEPT ![r] =
                    Some([mode |-> "process", model |-> m,
                          promptOk |-> ValidPrompt(len)])]
       /\ IF ~ValidPrompt(len)
          THEN /\ resp' = [resp EXCEPT ![r] =
                   Some(Response(400, Some("Validation failed"), Null, Null))]
               /\ pc' = [pc EXCEPT ![r] = "done"]
               /\ UNCHANGED <<ai_jobs, inserts, sel>>
          ELSE /\ ai_jobs' = (r :> NewJob(TenantHeader(r), "pending", Null)) @@ ai_jobs
               /\ inserts' = [inserts EXCEPT ![r] = @ + 1]
               /\ resp' = resp
               /\ IF m = NoModel
                  THEN /\ pc' = [pc EXCEPT ![r] = "p_select"]
                       /\ sel' = sel
                  ELSE /\ pc' = [pc EXCEPT ![r] = "p_lookup"]
                       /\ sel' = [sel EXCEPT ![r].name = Some(m)]
  /\ UNCHANGED <<envVars, generateCalls, thrown, result, published, streamVars,
                 quota,
                 now, bootVars, gatewayVars, otherVars>>

\* No model in the request: redis.get('assigned_models'), first entry.
ProcessSelectModel(r) ==
  /\ pc[r] = "p_select"
  /\ sel' = [sel EXCEPT ![r].name = Some(FirstAssigned(assigned_models))]
  /\ pc' = [pc EXCEPT ![r] = "p_lookup"]
  /\ UNCHANGED <<envVars, req, ai_jobs, inserts, generateCalls, thrown, result,
                 published, resp, streamVars, quota,
                 now, bootVars, gatewayVars, otherVars>>

\* SELECT the model row, then orchestrator.getProvider(modelInfo.provider).
ProcessLookupModel(r) ==
  /\ pc[r] = "p_lookup"
  /\ LET rows == ActiveModelRows(ai_models, sel[r].name[1])
     IN IF Len(rows) = 0
        THEN /\ pc' = [pc EXCEPT ![r] = "p_fail_model"]
             /\ sel' = sel
        ELSE /\ sel' = [sel EXCEPT ![r].info = Some(rows[1])]
             /\ pc' = [pc EXCEPT ![r] =
                  IF getProvider(providers, rows[1].provider) = Null
                  THEN "p_fail_provider" ELSE "p_processing"]
  /\ UNCHANGED <<envVars, req, ai_jobs, inserts, generateCalls, thrown, result,
                 published, resp, streamVars, quota,
                 now, bootVars, gatewayVars, otherVars>>

\* rows.length === 0: the job is failed and 400 is returned.
ProcessFailModel(r) ==
  /\ pc[r] = "p_fail_model"
  /\ ai_jobs' = SetRow(ai_jobs, r,
       UpdateJobUnavailable(ai_jobs[r], "Model not found or inactive"))
  /\ resp' = [resp EXCEPT ![r] = Some(Response(400, Some("Model not available"),
                                   Some("Model is not available"), Null))]
  /\ pc' = [pc EXCEPT ![r] = "done"]
  /\ UNCHANGED <<envVars, req, sel, inserts, generateCalls, thrown, result,
                 published, streamVars, quota,
                 now, bootVars, gatewayVars, otherVars>>

\* !provider: the job is failed and 503 is returned.
ProcessFailProvider(r) ==
  /\ pc[r] = "p_fail_provider"
  /\ ai_jobs' = SetRow(ai_jobs, r,
       UpdateJobUnavailable(ai_jobs[r], "Provider not available"))
  /\ resp' = [resp EXCEPT ![r] = Some(Response(503, Some("Provider unavailable"),
                                   Some("Provider is not available"), Null))]
  /\ pc' = [pc EXCEPT ![r] = "done"]
  /\ UNCHANGED <<envVars, req, sel, inserts, generateCalls, thrown, result,
                 published, streamVars, quota,
                 now, bootVars, gatewayVars, otherVars>>

\* try { UPDATE ... 'processing'
ProcessSetProcessing(r) ==
  /\ pc[r] = "p_processing"
  /\ ai_jobs' = SetRow(ai_jobs, r,
       UpdateJobProcessing(ai_jobs[r], sel[r].info[1].id))
  /\ pc' = [pc EXCEPT ![r] = "p_generate"]
  /\ UNCHANGED <<envVars, req, sel, inserts, generateCalls, thrown, result,
                 published, resp, streamVars, quota,
                 now, bootVars, gatewayVars, otherVars>>

\* const startTime = Date.now(); await provider.generateText(...).
\* When the call rejects, control enters catch (error) { const processingTime
\* = Date.now() - startTime; ... }.  startTime is a const of the try block and
\* is not in scope in the catch block, so evaluating it raises ReferenceError
\* before the UPDATE and the publish of the catch block; the outer catch then
\* answers 500 with that error's message.  No await lies in between.
ProcessGenerate(r) ==
  /\ pc[r] = "p_generate"
  /\ generateCalls' = [generateCalls EXCEPT ![r] = @ + 1]
  /\ \/ \E text \in Fragments, tokens \in TokenCounts :
          /\ result' = [result EXCEPT ![r] = Some(
               [provider |-> sel[r].info[1].provider,
                response |-> text, total_tokens |-> tokens,
                cost |-> ProviderCost(sel[r].info[1].provider,
                                      sel[r].name[1], tokens)])]
          /\ pc' = [pc EXCEPT ![r] = "p_completed"]
          /\ UNCHANGED <<thrown, resp>>
     \/ \E e \in ProviderErrors :
          /\ thrown' = [thrown EXCEPT ![r] = Some(e)]
          /\ resp' = [resp EXCEPT ![r] = Some(Response(500, Some("Processing failed"),
                                   Some("startTime is not defined"), Null))]
          /\ pc' = [pc EXCEPT ![r] = "done"]
          /\ UNCHANGED result
  /\ UNCHANGED <<envVars, req, sel, ai_jobs, inserts, published, streamVars,
                 quota,
                 now, bootVars, gatewayVars, otherVars>>

\* UPDATE ... 'completed', response, tokens_used, cost, ...
ProcessUpdateCompleted(r) ==
  /\ pc[r] = "p_completed"
  /\ ai_jobs' = SetRow(ai_jobs, r,
       UpdateJobCompleted(ai_jobs[r], result[r][1]))
  /\ pc' = [pc EXCEPT ![r] = "p_publish"]
  /\ UNCHANGED <<envVars, req, sel, inserts, generateCalls, thrown, result,
                 published, resp, streamVars, quota,
                 now, bootVars, gatewayVars, otherVars>>

\* redis.publish('ai_job_updates', {jobId, status: 'completed', ...}), then
\* res.json({ success: true, data: {...} }).
ProcessPublish(r) ==
  /\ pc[r] = "p_publish"
  /\ \E delivered \in BOOLEAN :
       /\ published' = IF delivered
                       THEN Publish(published, r, "completed", Null)
                       ELSE published
       /\ resp' = [resp EXCEPT ![r] =
            IF publishThrows(~delivered)
            THEN \* the catch block, which fails on startTime
                 Some(Response(500, Some("Processing failed"),
                               Some("startTime is not defined"), Null))
            ELSE Some(Response(200, Null, Null,
                   Some([jobId |-> r, response |-> result[r][1].response,
                         model |-> sel[r].name[1], cost |-> result[r][1].cost])))]
  /\ pc' = [pc EXCEPT ![r] = "done"]
  /\ UNCHANGED <<envVars, req, sel, ai_jobs, inserts, generateCalls, thrown,
                 result, streamVars, quota,
                 now, bootVars, gatewayVars, otherVars>>

Process(r) ==
  \/ ProcessStart(r) \/ ProcessSelectModel(r) \/ ProcessLookupModel(r)
  \/ ProcessFailModel(r) \/ ProcessFailProvider(r) \/ ProcessSetProcessing(r)
  \/ ProcessGenerate(r) \/ ProcessUpdateCompleted(r) \/ ProcessPublish(r)

\* ------------------------------------------------ POST /stream (event stream)
\* The handler never consults validationResult(req).
StreamStart(r) ==
  /\ pc[r] = "idle"
  /\ \E m \in RequestedModels, len \in PromptLens :
       /\ req' = [req EXCEPT ![r] =
                    Some([mode |-> "stream", model |-> m,
                          promptOk |-> ValidPrompt(len)])]
       /\ IF m = NoModel
          THEN /\ pc' = [pc EXCEPT ![r] = "s_select"]
               /\ sel' = sel
          ELSE /\ pc' = [pc EXCEPT ![r] = "s_lookup"]
               /\ sel' = [sel EXCEPT ![r].name = Some(m)]
  /\ UNCHANGED <<envVars, ai_jobs, inserts, generateCalls, thrown, result,
                 published, resp, streamVars, quota,
                 now, bootVars, gatewayVars, otherVars>>

StreamSelectModel(r) ==
  /\ pc[r] = "s_select"
  /\ sel' = [sel EXCEPT ![r].name = Some(FirstAssigned(assigned_models))]
  /\ pc' = [pc EXCEPT ![r] = "s_lookup"]
  /\ UNCHANGED <<envVars, req, ai_jobs, inserts, generateCalls, thrown, result,
                 published, resp, streamVars, quota,
                 now, bootVars, gatewayVars, otherVars>>

\* SELECT the model row; no row, or no adapter with generateTextStream: one
\* error event is written and the stream is ended.  No job row is written.
StreamLookupModel(r) ==
  /\ pc[r] = "s_lookup"
  /\ LET rows == ActiveModelRows(ai_models, sel[r].name[1])
     IN IF Len(rows) = 0
        THEN /\ events' = [events EXCEPT ![r] = resWrite(@,
                  Event("Model not available", Null, Null, Null))]
             /\ ended' = [ended EXCEPT ![r] = TRUE]
             /\ pc' = [pc EXCEPT ![r] = "done"]
             /\ sel' = sel
        ELSE /\ sel' = [sel EXCEPT ![r].info = Some(rows[1])]
             /\ IF \/ getProvider(providers, rows[1].provider) = Null
                   \/ rows[1].provider \notin streamCapable
                THEN /\ events' = [events EXCEPT ![r] = resWrite(@,
                          Event("Streaming not supported for this provider",
                                Null, Null, Null))]
                     /\ ended' = [ended EXCEPT ![r] = TRUE]
                     /\ pc' = [pc EXCEPT ![r] = "done"]
                ELSE /\ pc' = [pc EXCEPT ![r] = "s_insert"]
                     /\ UNCHANGED <<events, ended>>
  /\ UNCHANGED <<envVars, req, ai_jobs, inserts, generateCalls, thrown, result,
                 published, resp, clientGone, produced, consumedAfterGone, quota,
                 now, bootVars, gatewayVars, otherVars>>

\* INSERT ... 'streaming', the started event, and the call of
\* provider.generateTextStream (which awaits chat.completions.create).
StreamInsert(r) ==
  /\ pc[r] = "s_insert"
  /\ ai_jobs' = (r :> NewJob(TenantHeader(r), "streaming",
                         Some(sel[r].info[1].id))) @@ ai_jobs
  /\ inserts' = [inserts EXCEPT ![r] = @ + 1]
  /\ IF resWriteThrows(clientGone[r])
     THEN \* outer catch: its own res.write throws again
          /\ pc' = [pc EXCEPT ![r] = "done"]
          /\ UNCHANGED <<events, generateCalls>>
     ELSE /\ events' = [events EXCEPT ![r] = resWrite(@,
               Event("started", Some(r), Null, Null))]
          /\ generateCalls' = [generateCalls EXCEPT ![r] = @ + 1]
          /\ pc' = [pc EXCEPT ![r] = "s_create"]
  /\ UNCHANGED <<envVars, req, sel, thrown, result, published, resp, ended,
                 clientGone, produced, consumedAfterGone, quota,
                 now, bootVars, gatewayVars, otherVars>>

\* chat.completions.create({stream: true}) resolves to a stream or rejects.
StreamCreate(r) ==
  /\ pc[r] = "s_create"
  /\ \/ /\ result' = [result EXCEPT ![r] = Some(
               [provider |-> sel[r].info[1].provider, response |-> "",
                total_tokens |-> 0, cost |-> 0])]
        /\ pc' = [pc EXCEPT ![r] = "s_stream"]
        /\ thrown' = thrown
     \/ \E e \in ProviderErrors :
          /\ thrown' = [thrown EXCEPT ![r] = Some(e)]
          /\ pc' = [pc EXCEPT ![r] = "s_failed"]
          /\ result' = result
  /\ UNCHANGED <<envVars, req, sel, ai_jobs, inserts, generateCalls, published,
                 resp, streamVars, quota,
                 now, bootVars, gatewayVars, otherVars>>

\* the non-empty fragments streamed so far, over all requests
ChunksProduced ==
  Cardinality({p \in Reqs \X (1..MaxChunks) : p[2] <= Len(produced[p[1]])})

\* for await (const chunk of stream): one item; an empty delta is skipped,
\* otherwise fullResponse and tokenCount grow and onChunk writes a chunk event.
StreamChunk(r) ==
  /\ pc[r] = "s_stream"
  /\ consumedAfterGone' = [consumedAfterGone EXCEPT ![r] = clientGone[r]]
  /\ \E content \in Fragments \cup {""} :
       IF content = ""
       THEN UNCHANGED <<result, produced, events, pc, thrown>>
       ELSE LET tokenCount == result[r][1].total_tokens + estimateTokens(content)
            IN /\ ChunksProduced < MaxChunks
               /\ result' = [result EXCEPT ![r] = Some(
                      [@[1] EXCEPT !.response = @ \o content,
                                   !.total_tokens = tokenCount])]
               /\ produced' = [produced EXCEPT ![r] = Append(@, content)]
               /\ IF resWriteThrows(clientGone[r])
                  THEN /\ thrown' = [thrown EXCEPT ![r] = Some("write failed")]
                       /\ pc' = [pc EXCEPT ![r] = "s_failed"]
                       /\ events' = events
                  ELSE /\ events' = [events EXCEPT ![r] = resWrite(@,
                            Event("chunk", Some(r), Some(content),
                                  Some(tokenCount)))]
                       /\ UNCHANGED <<pc, thrown>>
  /\ UNCHANGED <<envVars, req, sel, ai_jobs, inserts, generateCalls, published,
                 resp, ended, clientGone, quota,
                 now, bootVars, gatewayVars, otherVars>>

\* the provider's stream raises in the middle
StreamRaise(r) ==
  /\ pc[r] = "s_stream"
  /\ \E e \in ProviderErrors : thrown' = [thrown EXCEPT ![r] = Some(e)]
  /\ pc' = [pc EXCEPT ![r] = "s_failed"]
  /\ UNCHANGED <<envVars, req, sel, ai_jobs, inserts, generateCalls, result,
                 published, resp, streamVars, quota,
                 now, bootVars, gatewayVars, otherVars>>

\* the provider's stream ends: generateTextStream returns its result
StreamEnd(r) ==
  /\ pc[r] = "s_stream"
  /\ result' = [result EXCEPT ![r] = Some([result[r][1] EXCEPT !.cost =
        ProviderCost(result[r][1].provider, sel[r].name[1],
                     result[r][1].total_tokens)])]
  /\ pc' = [pc EXCEPT ![r] = "s_completed"]
  /\ UNCHANGED <<envVars, req, sel, ai_jobs, inserts, generateCalls, thrown,
                 published, resp, streamVars, quota,
                 now, bootVars, gatewayVars, otherVars>>

\* UPDATE ... 'completed', then the complete event (still inside the try) and
\* res.end().
StreamUpdateCompleted(r) ==
  /\ pc[r] = "s_completed"
  /\ ai_jobs' = SetRow(ai_jobs, r,
       UpdateJobCompleted(ai_jobs[r], result[r][1]))
  /\ IF resWriteThrows(clientGone[r])
     THEN /\ thrown' = [thrown EXCEPT ![r] = Some("write failed")]
          /\ pc' = [pc EXCEPT ![r] = "s_failed"]
          /\ UNCHANGED <<events, ended>>
     ELSE /\ events' = [events EXCEPT ![r] = resWrite(@,
               Event("complete", Some(r), Null,
                     Some(result[r][1].total_tokens)))]
          /\ ended' = [ended EXCEPT ![r] = TRUE]
          /\ pc' = [pc EXCEPT ![r] = "done"]
          /\ thrown' = thrown
  /\ UNCHANGED <<envVars, req, sel, inserts, generateCalls, result, published,
                 resp, clientGone, produced, consumedAfterGone, quota,
                 now, bootVars, gatewayVars, otherVars>>

\* catch (error): UPDATE ... 'failed', the error event, then res.end().
StreamUpdateFailed(r) ==
  /\ pc[r] = "s_failed"
  /\ ai_jobs' = SetRow(ai_jobs, r,
       UpdateJobFailed(ai_jobs[r], thrown[r][1]))
  /\ IF resWriteThrows(clientGone[r])
     THEN UNCHANGED <<events, ended>>
     ELSE /\ events' = [events EXCEPT ![r] = resWrite(@,
               Event("error", Some(r), Some(thrown[r][1]), Null))]
          /\ ended' = [ended EXCEPT ![r] = TRUE]
  /\ pc' = [pc EXCEPT ![r] = "done"]
  /\ UNCHANGED <<envVars, req, sel, inserts, generateCalls, thrown, result,
                 published, resp, clientGone, produced, consumedAfterGone, quota,
                 now, bootVars, gatewayVars, otherVars>>

\* The client closes the connection while the provider call of its stream
\* request is in flight.  The handler registers no close listener.
InFlightStream == {"s_create", "s_stream"}

ClientDisconnect(r) ==
  /\ pc[r] \in InFlightStream
  /\ ~clientGone[r]
  /\ clientGone' = [clientGone EXCEPT ![r] = TRUE]
    /\ UNCHANGED <<envVars, pc, req, sel, ai_jobs, inserts, generateCalls, thrown,
                 result, published, resp, events, ended, produced,
                 consumedAfterGone, quota,
                 now, bootVars, gatewayVars, otherVars>>

Stream(r) ==
  \/ StreamStart(r) \/ StreamSelectModel(r) \/ StreamLookupModel(r)
  \/ StreamInsert(r) \/ StreamCreate(r) \/ StreamChunk(r) \/ StreamRaise(r)
  \/ StreamEnd(r) \/ StreamUpdateCompleted(r) \/ StreamUpdateFailed(r)
  \/ ClientDisconnect(r)

Next == \E r \in Reqs : Process(r) \/ Stream(r)

Spec == Init /\ [][Next]_vars

\* ------------------------------------------ a provider that stops answering
\* await provider.generateText(...), await chat.completions.create(...) and
\* for await (const chunk of stream) are awaited with no timer, no AbortSignal
\* and no Promise.race beside them: when the provider sends nothing more, the
\* promise stays pending and the handler never runs again.
AwaitingProvider == {"p_generate", "s_create", "s_stream"}

ProviderSilent(r) ==
  /\ pc[r] \in AwaitingProvider
  /\ pc' = [pc EXCEPT ![r] = "silent"]
  /\ UNCHANGED <<envVars, req, sel, ai_jobs, inserts, generateCalls, thrown,
                 result, published, resp, streamVars, quota,
                 now, bootVars, gatewayVars, otherVars>>

NextLive == \E r \in Reqs : Process(r) \/ Stream(r) \/ ProviderSilent(r)

\* The event loop runs every continuation that is ready, and a provider that
\* has not fallen silent answers: each request's enabled step is taken.
SpecLive ==
  Init /\ [][NextLive]_vars /\ \A r \in Reqs : WF_vars(Process(r) \/ Stream(r))

\* ------------------------------------------- checkSubscriptionLimits (gateway)
Unlimited == -1
Plans == {"free", "basic", "pro", "enterprise"}
Features == {"ai_requests_per_month", "storage_gb", "team_members", "webhooks"}

\* const limits = { free: {...}, basic: {...}, pro: {...}, enterprise: {...} }
limits ==
  [plan \in Plans |->
     CASE plan = "free" ->
            [ai_requests_per_month |-> 100, storage_gb |-> 1,
             team_members |-> 3, webhooks |-> 1]
       [] plan = "basic" ->
            [ai_requests_per_month |-> 1000, storage_gb |-> 10,
             team_members |-> 10, webhooks |-> 5]
       [] plan = "pro" ->
            [ai_requests_per_month |-> 10000, storage_gb |-> 100,
             team_members |-> 50, webhooks |-> 25]
       [] plan = "enterprise" ->
            [ai_requests_per_month |-> Unlimited, storage_gb |-> Unlimited,
             team_members |-> Unlimited, webhooks |-> Unlimited]]

\* const planLimits = limits[subscriptionPlan] || limits.free;
\* const limit = planLimits[feature];
PlanLimit(plan, feature) ==
  IF plan \in DOMAIN limits THEN limits[plan][feature] ELSE limits["free"][feature]

\* if (currentUsage >= limit) -> 403
OverLimitStrict(currentUsage, limit) == currentUsage > limit

OverLimit(currentUsage, limit) == currentUsage >= limit

\* The middleware's decision for the usage its query returned: "next" when the
\* request is passed on, "denied" when 403 is answered.
checkSubscriptionLimits(plan, feature, currentUsage) ==
  LET limit == PlanLimit(plan, feature)
  IN IF limit = Unlimited THEN "next"
     ELSE IF OverLimit(currentUsage, limit) THEN "denied" ELSE "next"

\* usage values: everything up to MaxUsage, and the neighbours of every limit
MaxUsage == 101
SubscriptionPlans == Plans \cup {"trial"}
Usages ==
  (0..MaxUsage) \cup
  {limits[p][f] + d : p \in Plans \ {"enterprise"}, f \in Features, d \in {-1, 0, 1}}

InitQuota ==
  /\ InitEnv /\ InitReqs
  /\ now = 0 /\ InitBooted /\ InitNoGateway /\ InitOther
  /\ quota \in [plan : SubscriptionPlans, feature : Features, usage : Usages,
                outcome : {"none"}]

CheckLimits ==
  /\ quota.outcome = "none"
  /\ quota' = [quota EXCEPT !.outcome =
                 checkSubscriptionLimits(quota.plan, quota.feature, quota.usage)]
  /\ UNCHANGED <<envVars, pc, req, sel, ai_jobs, inserts, generateCalls, thrown,
                 result, published, resp, streamVars,
                 now, bootVars, gatewayVars, otherVars>>

NextQuota == CheckLimits

SpecQuota == InitQuota /\ [][NextQuota]_vars

\* ------------------------------------- gateway: POST /api/ai/process
\* what the requests in flight leave alone
pipelineVars == <<pc, req, sel, inserts, generateCalls, thrown, result,
                  published, resp, streamVars, quota>>

AiFeature == "ai_requests_per_month"
FreeLimit == PlanLimit("free", AiFeature)

\* the tenant's job rows of the current month: the rows followed one by one
\* and the further ones
MonthUsage(t) == backlog[t] + CurrentUsage(ai_jobs, t, now)

\* Tenants on a limited and on the unlimited plan, with usage just below and
\* at the limit.
InitGateway ==
  /\ InitEnv /\ InitReqs /\ quota = NoQuota /\ now = 0 /\ InitBooted
  /\ InitOther
  /\ tenants \in [Tenants -> [subscription_plan : {"free", "enterprise"}]]
  /\ backlog \in [Tenants -> {FreeLimit - 2, FreeLimit - 1, FreeLimit}]
  /\ gw = [c \in Clients |-> Null]

\* router.post('/process', [checkSubscriptionLimits(...), validators], handler):
\* the middleware's COUNT query and decision, then the validation; a request
\* that passes both is handed to the proxy.
GatewayCheck(c) ==
  /\ gw[c] = Null
  /\ \E t \in Tenants, len \in PromptLens :
       LET plan == tenants[t].subscription_plan
           limit == PlanLimit(plan, AiFeature)
           usage == MonthUsage(t)
           outcome == checkSubscriptionLimits(plan, AiFeature, usage)
       IN gw' = [gw EXCEPT ![c] =
                   Some([tenant |-> t,
                         seen |-> IF limit = Unlimited THEN Null ELSE Some(usage),
                         promptOk |-> ValidPrompt(len),
                         stage |-> IF outcome = "denied" THEN "403"
                                   ELSE IF ~ValidPrompt(len) THEN "400"
                                   ELSE "proxied"])]
  /\ UNCHANGED <<envVars, ai_jobs, pipelineVars, now, bootVars, tenants, backlog,
                 otherVars>>

\* The proxied request reaches the orchestrator's POST /process with the
\* x-tenant-id header set: INSERT INTO ai_jobs ... 'pending'.
GatewayJobInsert(c) ==
  /\ gw[c] # Null /\ gw[c][1].stage = "proxied"
  /\ ai_jobs' = (c :> NewJob(Some(gw[c][1].tenant), "pending", Null)) @@ ai_jobs
  /\ gw' = [gw EXCEPT ![c] = Some([gw[c][1] EXCEPT !.stage = "inserted"])]
  /\ UNCHANGED <<envVars, pipelineVars, now, bootVars, tenants, backlog,
                 otherVars>>

NextGateway == \E c \in Clients : GatewayCheck(c) \/ GatewayJobInsert(c)

SpecGateway == InitGateway /\ [][NextGateway]_vars

\* ------------------------------------------ AIOrchestrator.initialize
\* the rows of the database initialisation script
SeedRows ==
  {ModelRow("gpt-4", "openai", "high", 30, TRUE),
   ModelRow("gpt-3.5-turbo", "openai", "medium", 2, TRUE),
   ModelRow("llama2-7b", "local", "medium", 0, TRUE),
   ModelRow("llama2-13b", "local", "high", 0, TRUE),
   ModelRow("mixtral-8x7b", "local", "very_high", 0, TRUE)}

\* The process has connected to the database and to redis; the registry is
\* empty or seeded, with or without a unique index on name.
InitBoot ==
  /\ InitReqs /\ quota = NoQuota /\ now = 0 /\ InitNoGateway /\ InitOther
  /\ ai_models \in {{}, SeedRows}
  /\ uniqueName \in BOOLEAN
  /\ providers = {} /\ streamCapable = {}
  /\ assigned_models = Null
  /\ boot = [pc |-> "detect", detection |-> "pending"]
  /\ hardwareInfo = [gpu |-> Null]
  /\ modelConfig = Null
  /\ category = Null

\* what a startup step leaves alone
requestVars == <<ai_jobs, pipelineVars, now, gatewayVars, otherVars>>

\* HardwareDetector.detectHardware: a failing graphics probe leaves gpu null;
\* any other failing probe is rethrown, initialize rethrows it and startServer
\* ends the process.
DetectHardware ==
  /\ boot.pc = "detect"
  /\ \/ /\ boot' = [pc |-> "exited", detection |-> "failed"]
        /\ hardwareInfo' = hardwareInfo
     \/ \E probe \in GraphicsProbes :
          /\ hardwareInfo' = [gpu |-> DetectedGpu(probe)]
          /\ boot' = [pc |-> "providers", detection |-> "ok"]
  /\ UNCHANGED <<envVars, modelConfig, category, uniqueName, requestVars>>

\* initializeProviders: openai only with OPENAI_API_KEY, local always.
InitializeProviders ==
  /\ boot.pc = "providers"
  /\ providers' \in {{"local"}, {"openai", "local"}}
  /\ streamCapable' \in {providers' \ {"local"}, providers'}
  /\ boot' = [boot EXCEPT !.pc = "load"]
  /\ UNCHANGED <<ai_models, assigned_models, hardwareInfo, modelConfig,
                 category, uniqueName, requestVars>>

\* loadModels: the configuration file, or the default when it cannot be read.
LoadModels ==
  /\ boot.pc = "load"
  /\ modelConfig' \in ModelConfigs
  /\ boot' = [boot EXCEPT !.pc = "register"]
  /\ UNCHANGED <<envVars, hardwareInfo, category, uniqueName, requestVars>>

\* registerModels.  ON CONFLICT (name) needs a unique index on name: without
\* one the first statement is rejected, loadModels and initialize rethrow and
\* startServer ends the process.
RegisterModels ==
  /\ boot.pc = "register"
  /\ LET list == RegistrationList(modelConfig)
     IN IF ~uniqueName /\ Len(list) > 0
        THEN /\ boot' = [boot EXCEPT !.pc = "exited"]
             /\ ai_models' = ai_models
        ELSE /\ ai_models' = UpsertModels(ai_models, list)
             /\ boot' = [boot EXCEPT !.pc = "assign"]
  /\ UNCHANGED <<providers, streamCapable, assigned_models, hardwareInfo,
                 modelConfig, category, uniqueName, requestVars>>

\* autoAssignModels: redis.set('assigned_models', assignedModels, 3600); then
\* schedulePeriodicTasks, initialized = true and app.listen.
AutoAssignModels ==
  /\ boot.pc = "assign"
  /\ category' = Some(Category(hardwareInfo))
  /\ assigned_models' =
       Some(AssignedModels(modelConfig, Category(hardwareInfo)))
  /\ boot' = [boot EXCEPT !.pc = "ready"]
  /\ UNCHANGED <<ai_models, providers, streamCapable, hardwareInfo,
                 modelConfig, uniqueName, requestVars>>

\* The key assigned_models reaches its expiration (setEx with 3600 seconds).
ExpireAssignedModels ==
  /\ boot.pc = "ready"
  /\ assigned_models # Null
  /\ assigned_models' = Null
  /\ UNCHANGED <<ai_models, providers, streamCapable, bootVars, requestVars>>

\* The server listens once initialize has completed.
Serve(r) == boot.pc = "ready" /\ Process(r)

NextBoot ==
  \/ DetectHardware \/ InitializeProviders \/ LoadModels \/ RegisterModels
  \/ AutoAssignModels \/ ExpireAssignedModels
  \/ \E r \in Reqs : Serve(r)

SpecBoot == InitBoot /\ [][NextBoot]_vars

\* ----------------------------------------------- retention of job rows
\* a provider result as the completing UPDATE stores it
StoredResult == [response |-> "Hi", total_tokens |-> 500, cost |-> 0]

InitPurge ==
  /\ InitEnv /\ providers = {"openai", "local"} /\ streamCapable = providers
  /\ InitReqs /\ quota = NoQuota /\ InitBooted /\ InitNoGateway
  /\ InitOther
  /\ now = 0

purgeFrame == <<envVars, pipelineVars, bootVars, gatewayVars, jobsResp,
                taskVars>>

\* Time passes.
Tick ==
  /\ \E t \in Times : t > now /\ now' = t
  /\ UNCHANGED <<ai_jobs, retentionVars, purgeFrame>>

\* The statements the request handlers run on a job row, at the current time:
\* INSERT ... 'pending' (POST /process) or INSERT ... 'streaming' (POST /stream)
JobInsert(j) ==
  /\ j \notin DOMAIN ai_jobs /\ j \notin purged
  /\ \E status \in {"pending", "streaming"} :
       ai_jobs' = (j :> NewJob(TenantHeader(j), status,
                              IF status = "streaming" THEN Some("gpt-4") ELSE Null))
                  @@ ai_jobs
  /\ UNCHANGED <<now, retentionVars, purgeFrame>>

\* UPDATE ... status = 'failed', error_message (model or provider unavailable)
JobUnavailable(j) ==
  /\ j \in DOMAIN ai_jobs /\ ai_jobs[j].status = "pending"
  /\ ai_jobs' = SetRow(ai_jobs, j,
       UpdateJobUnavailable(ai_jobs[j], "Model not found or inactive"))
  /\ terminalAt' = [terminalAt EXCEPT ![j] = Some(now)]
  /\ UNCHANGED <<now, purged, purgeFrame>>

\* UPDATE ... status = 'processing', model_id
JobProcessing(j) ==
  /\ j \in DOMAIN ai_jobs /\ ai_jobs[j].status = "pending"
  /\ ai_jobs' = SetRow(ai_jobs, j, UpdateJobProcessing(ai_jobs[j], "gpt-4"))
  /\ UNCHANGED <<now, retentionVars, purgeFrame>>

\* UPDATE ... status = 'completed', ..., completed_at = NOW()
JobCompleted(j) ==
  /\ j \in DOMAIN ai_jobs /\ ai_jobs[j].status \in {"processing", "streaming"}
  /\ ai_jobs' = SetRow(ai_jobs, j, UpdateJobCompleted(ai_jobs[j], StoredResult))
  /\ terminalAt' = [terminalAt EXCEPT ![j] = Some(now)]
  /\ UNCHANGED <<now, purged, purgeFrame>>

\* UPDATE ... status = 'failed', ..., completed_at = NOW(): the streaming
\* handler's catch block (the synchronous one never gets to its UPDATE)
JobFailed(j) ==
  /\ j \in DOMAIN ai_jobs /\ ai_jobs[j].status = "streaming"
  /\ ai_jobs' = SetRow(ai_jobs, j,
       UpdateJobFailed(ai_jobs[j], "Rate limit exceeded"))
  /\ terminalAt' = [terminalAt EXCEPT ![j] = Some(now)]
  /\ UNCHANGED <<now, purged, purgeFrame>>

\* cleanupOldJobs, run by the hourly task: one DELETE statement.  A run that
\* matches no row changes nothing.
cleanupOldJobs ==
  LET gone == {id \in DOMAIN ai_jobs : Purgeable(ai_jobs[id], now)}
  IN /\ gone # {}
     /\ ai_jobs' = [id \in DOMAIN ai_jobs \ gone |-> ai_jobs[id]]
     /\ purged' = purged \cup gone
     /\ UNCHANGED <<now, terminalAt, purgeFrame>>

NextPurge ==
  \/ Tick \/ cleanupOldJobs
  \/ \E j \in JobIds :
       \/ JobInsert(j) \/ JobUnavailable(j) \/ JobProcessing(j)
       \/ JobCompleted(j) \/ JobFailed(j)

SpecPurge == InitPurge /\ [][NextPurge]_vars

\* ------------------------------------- one tenant's requests, one at a time
\* A tenant's requests that never overlap: a request of the tenant is checked
\* only when no earlier admitted request of that tenant is still on its way to
\* its INSERT.
GatewayCheckSerial(c) ==
  /\ GatewayCheck(c)
  /\ \A d \in Clients :
       (gw[d] # Null /\ gw[d][1].stage = "proxied")
       => gw[d][1].tenant # gw'[c][1].tenant

\* the clock within one calendar month
TickWithinMonth == Tick /\ startOfMonth(now') = startOfMonth(now)

\* The gateway in front of the orchestrator over a month: requests are checked
\* and proxied, their jobs are inserted and completed, and the hourly purge
\* runs.
InitSerial ==
  /\ InitGateway
  /\ providers = {"openai", "local"} /\ streamCapable = providers

NextSerial ==
  \/ \E c \in Clients : GatewayCheckSerial(c) \/ GatewayJobInsert(c)
  \/ \E j \in JobIds : JobProcessing(j) \/ JobCompleted(j)
  \/ TickWithinMonth \/ cleanupOldJobs

SpecSerial == InitSerial /\ [][NextSerial]_vars

\* ------------------------------------------------------- scheduled tasks
\* SELECT * FROM ai_models WHERE is_active = true
ActiveModels(models) == {am \in models : am.is_active}

\* for (const model of models.rows) { const provider =
\*   this.providers[model.provider]; if (provider) { ... } }: the models the
\* run probes
ProbedModels(models, registered) ==
  {am \in ActiveModels(models) : getProvider(registered, am.provider) # Null}

\* redis.hSet('model_availability', model.name, isAvailable) for each probed
\* model; the other fields of the hash are left as they are
HSetAll(hash, values) ==
  [n \in DOMAIN hash \cup DOMAIN values |->
     IF n \in DOMAIN values THEN values[n] ELSE hash[n]]

\* the callback given to cron.schedule: try { await task() } catch (error)
\* { logger.error(...) }.  The rejection is consumed in the callback: the
\* process lives on and the schedule of every task stays as it is.
TaskCallbackUncaught(state, t, threw) ==
  [state EXCEPT !.runs[t] = @ + 1,
                !.failures[t] = IF threw THEN @ + 1 ELSE @,
                !.last[t] = IF threw THEN "failed" ELSE "ok",
                !.alive = IF threw THEN FALSE ELSE @,
                !.scheduled = IF threw THEN {} ELSE @]

TaskCallback(state, t, threw) ==
  [state EXCEPT !.runs[t] = @ + 1,
                !.failures[t] = IF threw THEN @ + 1 ELSE @,
                !.last[t] = IF threw THEN "failed" ELSE "ok"]

\* cron fires a task's callback at its next minute
Due(t) == tasks.alive /\ t \in tasks.scheduled /\ tasks.runs[t] < MaxRuns

\* '*/5 * * * *': updateModelAvailability.  The SELECT may reject (the run
\* throws before any write); checkAvailability answers true or false for each
\* probed model and catches its own errors.
RunAvailability ==
  /\ Due("availability")
  /\ \E threw \in BOOLEAN :
       /\ tasks' = TaskCallback(tasks, "availability", threw)
       /\ IF threw
          THEN UNCHANGED <<model_availability, probed>>
          ELSE \E isAvailable \in
                   [{am.name : am \in ProbedModels(ai_models, providers)} -> BOOLEAN] :
                 /\ probed' = isAvailable
                 /\ model_availability' = HSetAll(model_availability, isAvailable)
  /\ UNCHANGED <<ai_jobs, now, retentionVars, jobsResp, envVars, pipelineVars,
                 bootVars, gatewayVars>>

\* '0 * * * *': cleanupOldJobs.  The DELETE may reject.
RunCleanup ==
  /\ Due("cleanup")
  /\ \E threw \in BOOLEAN :
       LET gone == IF threw THEN {}
                   ELSE {id \in DOMAIN ai_jobs : Purgeable(ai_jobs[id], now)}
       IN /\ tasks' = TaskCallback(tasks, "cleanup", threw)
          /\ ai_jobs' = [id \in DOMAIN ai_jobs \ gone |-> ai_jobs[id]]
          /\ purged' = purged \cup gone
  /\ UNCHANGED <<now, terminalAt, model_availability, probed, jobsResp, envVars,
                 pipelineVars, bootVars, gatewayVars>>

\* '0 2 * * *': checkForModelUpdates, which asks the local adapter to check
\* for updates; the call may reject.
RunUpdates ==
  /\ Due("updates")
  /\ \E threw \in BOOLEAN : tasks' = TaskCallback(tasks, "updates", threw)
  /\ UNCHANGED <<ai_jobs, now, retentionVars, model_availability, probed,
                 jobsResp, envVars, pipelineVars, bootVars, gatewayVars>>

\* The service starts with one job completed more than 30 days ago in the
\* table, and with the redis hash either absent or as an earlier deployment
\* left it (every active model marked unavailable).
InitTasks ==
  /\ InitEnv /\ streamCapable = providers
  /\ InitHandlers /\ quota = NoQuota /\ InitBooted /\ InitNoGateway
  /\ now = RetentionHours + 1
  /\ ai_jobs = (1 :> [NewJob(TenantHeader(1), "completed", Some("llama2-7b"))
                      EXCEPT !.created_at = 0, !.completed_at = Some(0)])
  /\ jobsResp = Null
  /\ purged = {}
  /\ terminalAt = [j \in JobIds |-> IF j = 1 THEN Some(0) ELSE Null]
  /\ model_availability \in
       {<<>>, [n \in {am.name : am \in ActiveModels(SeedModels)} |-> FALSE]}
  /\ probed = <<>>
  /\ tasks = [alive |-> TRUE, scheduled |-> TaskNames,
              runs |-> [t \in TaskNames |-> 0],
              failures |-> [t \in TaskNames |-> 0],
              last |-> [t \in TaskNames |-> "none"]]

NextTasks == RunAvailability \/ RunCleanup \/ RunUpdates

SpecTasks == InitTasks /\ [][NextTasks]_vars

\* ------------------------------------------------ GET /jobs/:jobId, GET /jobs
\* req.headers['x-tenant-id'] of the caller: a tenant's id, or no header
Callers == {Some(t) : t \in Tenants} \cup {Null}
JobStatuses == {"pending", "processing", "streaming", "completed", "failed"}
\* const { page = 1, limit = 20, status } = req.query
DefaultPage == 1
DefaultLimit == 20

\* a row of ai_jobs as the query returns it
JobRow(jobs, id) == [id |-> id] @@ jobs[id]

\* LEFT JOIN ai_models am ON aj.model_id = am.id: am.name as model_name,
\* am.provider, NULL where no model row matches
JoinedRow(jobs, models, id) ==
  LET matches == {am \in models : jobs[id].model_id = Some(am.id)}
      am == CHOOSE x \in matches : TRUE
  IN [model_name |-> IF matches = {} THEN Null ELSE Some(am.name),
      provider |-> IF matches = {} THEN Null ELSE Some(am.provider)]
     @@ JobRow(jobs, id)

\* WHERE tenant_id = $1 only when the header is there; AND status = $n only
\* when the query names a status
JobsWhere(jobs, caller, status) ==
  {id \in DOMAIN jobs :
     /\ caller # Null => jobs[id].tenant_id = caller
     /\ status # Null => jobs[id].status = status[1]}

\* ORDER BY aj.created_at DESC: every order of the ids that agrees with it
\* (rows of equal created_at come in any order)
OrderByCreatedAtDesc(jobs, ids) ==
  {o \in [1..Cardinality(ids) -> ids] :
     /\ \A a, b \in DOMAIN o : a # b => o[a] # o[b]
     /\ \A a, b \in DOMAIN o : a < b => jobs[o[a]].created_at >= jobs[o[b]].created_at}

\* LIMIT $n OFFSET $m
LimitOffset(rows, limit, offset) ==
  [k \in 1..(IF Len(rows) - offset < 0 THEN 0
             ELSE IF Len(rows) - offset > limit THEN limit
             ELSE Len(rows) - offset) |-> rows[offset + k]]

\* GET /jobs/:jobId: SELECT * FROM ai_jobs WHERE id = $1; 404 without a row
GetJob(caller, jobId) ==
  /\ jobsResp' =
       IF jobId \notin DOMAIN ai_jobs
       THEN Some([route |-> "job", caller |-> caller, code |-> 404, data |-> <<>>])
       ELSE Some([route |-> "job", caller |-> caller, code |-> 200,
                  data |-> <<JobRow(ai_jobs, jobId)>>])
  /\ UNCHANGED <<ai_jobs, now, retentionVars, taskVars, envVars, pipelineVars,
                 bootVars, gatewayVars>>

\* GET /jobs: the page of the job history
GetJobs(caller, status) ==
  /\ \E o \in OrderByCreatedAtDesc(ai_jobs, JobsWhere(ai_jobs, caller, status)) :
       jobsResp' = Some([route |-> "jobs", caller |-> caller, code |-> 200,
         data |-> LimitOffset([k \in DOMAIN o |-> JoinedRow(ai_jobs, ai_models, o[k])],
                              DefaultLimit, (DefaultPage - 1) * DefaultLimit)])
  /\ UNCHANGED <<ai_jobs, now, retentionVars, taskVars, envVars, pipelineVars,
                 bootVars, gatewayVars>>

NextQuery ==
  \/ \E j \in JobIds :
       \/ JobInsert(j) \/ JobUnavailable(j) \/ JobProcessing(j)
       \/ JobCompleted(j) \/ JobFailed(j)
  \/ \E caller \in Callers :
       \/ \E j \in JobIds : GetJob(caller, j)
       \/ \E status \in {Null} \cup {Some(st) : st \in JobStatuses} :
            GetJobs(caller, status)

SpecQuery == InitPurge /\ [][NextQuery]_vars

\* ======================================================= properties
IsProcess(r) == req[r] # Null /\ req[r][1].mode = "process"
IsStream(r) == req[r] # Null /\ req[r][1].mode = "stream"
Resolved(r) == sel[r].name # Null
HasJob(r) == r \in DOMAIN ai_jobs
Terminal == {"completed", "failed"}

\* the resolved model is registered and active
ModelActive(r) ==
  /\ Resolved(r)
  /\ ActiveModelRows(ai_models, sel[r].name[1]) # <<>>
\* ... and its provider has a registered adapter
ProviderRegistered(r) ==
  /\ ModelActive(r)
  /\ ActiveModelRows(ai_models, sel[r].name[1])[1].provider \in providers
\* ... and that adapter can stream
ProviderStreams(r) ==
  /\ ProviderRegistered(r)
  /\ ActiveModelRows(ai_models, sel[r].name[1])[1].provider \in streamCapable

\* C1: a valid synchronous request whose model is registered and active with a
\* registered provider has created exactly one job once its response is sent,
\* and that job is completed or failed, whether generateText returned or threw.
C1_SyncJobTerminalAfterResponse ==
  \A r \in Reqs :
    (IsProcess(r) /\ resp[r] # Null /\ req[r][1].promptOk
       /\ ProviderRegistered(r))
    => /\ inserts[r] = 1
       /\ HasJob(r)
       /\ ai_jobs[r].status \in Terminal

\* C2: when generateText throws on the synchronous path, the job is failed with
\* the provider's error message and completed_at set, a failed message for the
\* job is published, and the error response carries the provider's message.
C2_SyncProviderErrorRecorded ==
  \A r \in Reqs :
    (IsProcess(r) /\ thrown[r] # Null /\ resp[r] # Null)
    => /\ HasJob(r)
       /\ ai_jobs[r].status = "failed"
       /\ ai_jobs[r].error_message = thrown[r]
       /\ ai_jobs[r].completed_at # Null
       /\ \E m \in published : m.jobId = r /\ m.status = "failed"
       /\ resp[r][1].message = thrown[r]

\* C3: on the synchronous path, a resolved model that is absent or inactive, or
\* whose provider has no adapter, never leads to a provider call; when the
\* handler has answered, the job is failed with an error message and the
\* response is an error without output.
C3_SyncUnavailableFailsJob ==
  \A r \in Reqs :
    (IsProcess(r) /\ Resolved(r) /\ ~ProviderRegistered(r))
    => /\ generateCalls[r] = 0
       /\ result[r] = Null
       /\ (pc[r] = "done" =>
             /\ HasJob(r)
             /\ inserts[r] = 1
             /\ ai_jobs[r].status = "failed"
             /\ ai_jobs[r].error_message # Null
             /\ resp[r] # Null
             /\ resp[r][1].code \in {400, 503}
             /\ resp[r][1].error # Null
             /\ resp[r][1].data = Null)

\* a synchronous request for an active model whose provider has no adapter
\* was answered 503 and left a failed job
C3_Witness ==
  \E r \in Reqs :
    /\ IsProcess(r) /\ pc[r] = "done" /\ ModelActive(r)
    /\ ~ProviderRegistered(r) /\ HasJob(r) /\ ai_jobs[r].status = "failed"
    /\ resp[r][1].code = 503

\* C4: on the streaming path, a request whose model is absent or inactive, or
\* whose provider has no adapter or cannot stream, leaves a failed job with an
\* error message, and no provider is invoked.
C4_StreamUnavailableLeavesFailedJob ==
  \A r \in Reqs :
    (IsStream(r) /\ Resolved(r) /\ ~ProviderStreams(r) /\ pc[r] = "done")
    => /\ generateCalls[r] = 0
       /\ HasJob(r)
       /\ ai_jobs[r].status = "failed"
       /\ ai_jobs[r].error_message # Null

\* C5: a stream request whose model is registered and active and whose provider
\* streams creates exactly one job, and when the event stream has been ended
\* that job is completed or failed, never still streaming.
C5_StreamJobTerminalAtEnd ==
  \A r \in Reqs :
    IsStream(r) =>
      /\ inserts[r] <= 1
      /\ (ended[r] /\ ProviderStreams(r)) =>
            /\ inserts[r] = 1
            /\ HasJob(r)
            /\ ai_jobs[r].status \in Terminal

\* the provider's stream raised after a fragment, and the event stream was
\* ended with the job failed
C5_Witness ==
  \E r \in Reqs :
    /\ IsStream(r) /\ ended[r] /\ ProviderStreams(r) /\ thrown[r] # Null
    /\ Len(produced[r]) > 0 /\ inserts[r] = 1 /\ ai_jobs[r].status = "failed"

\* C6: once a streaming job's row holds a terminal status the row is not
\* written again: completed is never followed by failed (also when the complete
\* event cannot be written to the client) nor failed by completed.
C6_StreamTerminalWrittenOnce ==
  [][\A r \in Reqs :
       (IsStream(r) /\ HasJob(r) /\ ai_jobs[r].status \in Terminal)
       => (r \in DOMAIN ai_jobs' /\ ai_jobs'[r] = ai_jobs[r])]_vars

\* a streaming job is completed although its client had gone before the
\* complete event was written
C6_Witness ==
  \E r \in Reqs :
    /\ IsStream(r) /\ HasJob(r) /\ pc[r] = "done" /\ clientGone[r]
    /\ ai_jobs[r].status = "completed"
    /\ events[r][Len(events[r])].type = "complete"

\* C7: the events written for a streaming job are: one started event with the
\* job id first, then chunk events in the order the provider produced the
\* fragments, then at most one terminal event (exactly one once the stream is
\* ended), after which nothing is written.
C7_StreamEventOrder ==
  \A r \in Reqs :
    (IsStream(r) /\ HasJob(r)) =>
      LET evs == events[r]
          n == Len(evs)
          k == Len(produced[r])
      IN /\ n >= 1
         /\ evs[1].type = "started" /\ evs[1].jobId = Some(r)
         /\ n \in {k + 1, k + 2}
         /\ \A i \in 2..(k + 1) :
              /\ evs[i].type = "chunk"
              /\ evs[i].jobId = Some(r)
              /\ evs[i].content = Some(produced[r][i - 1])
         /\ (n = k + 2) =>
              /\ evs[n].type \in {"complete", "error"}
              /\ evs[n].jobId = Some(r)
              /\ pc[r] = "done"
         /\ ended[r] <=> (n = k + 2)

\* a stream with two different fragments was written in order and completed
C7_Witness ==
  \E r \in Reqs :
    /\ IsStream(r) /\ HasJob(r) /\ ended[r]
    /\ Len(events[r]) = 4
    /\ events[r][2].content # events[r][3].content
    /\ events[r][4].type = "complete"

\* C8: a job has response, tokens_used and cost set if and only if its status
\* is completed; pending, processing, streaming and failed jobs have none.
C8_OutputIffCompleted ==
  \A r \in DOMAIN ai_jobs :
    /\ (ai_jobs[r].status = "completed") <=> (ai_jobs[r].response # Null)
    /\ (ai_jobs[r].status = "completed") <=> (ai_jobs[r].tokens_used # Null)
    /\ (ai_jobs[r].status = "completed") <=> (ai_jobs[r].cost # Null)

\* a job completed by the synchronous path holds all three fields
C8_Witness ==
  \E r \in DOMAIN ai_jobs :
    /\ IsProcess(r) /\ ai_jobs[r].status = "completed"
    /\ ai_jobs[r].response # Null /\ ai_jobs[r].tokens_used = Some(500)
    /\ ai_jobs[r].cost # Null

\* C9: when the client disconnects while a streaming job is in progress, no
\* further item is taken from the provider and the job ends failed, neither
\* completed nor left streaming.
C9_DisconnectAbortsJob ==
  \A r \in Reqs :
    (IsStream(r) /\ clientGone[r] /\ pc[r] = "done") =>
      /\ HasJob(r)
      /\ ai_jobs[r].status = "failed"
      /\ ~consumedAfterGone[r]

\* C10: the middleware admits a request iff the plan's limit for the feature is
\* the unlimited sentinel or the usage is strictly below the limit; free plan,
\* limit 100: usage 100 is denied and 99 admitted; enterprise admits any usage.
TierLimit(plan, feature) ==
  limits[IF plan \in Plans THEN plan ELSE "free"][feature]
C10_QuotaDecision ==
  quota.outcome # "none" =>
    /\ (quota.outcome = "next") <=>
         \/ TierLimit(quota.plan, quota.feature) = -1
         \/ quota.usage < TierLimit(quota.plan, quota.feature)
    /\ (quota.outcome = "denied") <=>
         /\ TierLimit(quota.plan, quota.feature) # -1
         /\ quota.usage >= TierLimit(quota.plan, quota.feature)
    /\ (quota.plan = "free" /\ quota.feature = "ai_requests_per_month") =>
         /\ (quota.usage = 100 => quota.outcome = "denied")
         /\ (quota.usage = 99 => quota.outcome = "next")
    /\ (quota.plan = "enterprise") => quota.outcome = "next"

\* the free plan's request number 101 of the month was denied
C10_Witness ==
  /\ quota.plan = "free" /\ quota.feature = "ai_requests_per_month"
  /\ quota.usage = 100 /\ quota.outcome = "denied"

\* ------------------------------------------------------------------ C11
ClientOf(c, t) == gw[c] # Null /\ gw[c][1].tenant = t
Admitted(c) == gw[c] # Null /\ gw[c][1].stage \in {"proxied", "inserted"}
Inserted(c) == gw[c] # Null /\ gw[c][1].stage = "inserted"

\* C11: the quota check and the job insert are separate steps with nothing
\* reserved in between: a request is admitted whenever the count it read is
\* below the limit, whatever other admitted requests are still on their way,
\* so two requests of a tenant that both read limit - 1 are both admitted and,
\* once both have inserted their job, the tenant's month count is at least
\* limit + 1.  The count is the backlog plus one per inserted job.
C11_QuotaRace ==
  \A t \in Tenants :
    LET limit == PlanLimit(tenants[t].subscription_plan, AiFeature)
    IN /\ MonthUsage(t) =
            backlog[t] + Cardinality({c \in Clients : ClientOf(c, t) /\ Inserted(c)})
       /\ limit # Unlimited =>
            /\ \A c \in Clients :
                 (ClientOf(c, t) /\ gw[c][1].promptOk) =>
                   (Admitted(c) <=> gw[c][1].seen[1] < limit)
            /\ \A c1, c2 \in Clients :
                 (/\ c1 # c2
                  /\ ClientOf(c1, t) /\ Inserted(c1) /\ gw[c1][1].seen[1] = limit - 1
                  /\ ClientOf(c2, t) /\ Inserted(c2) /\ gw[c2][1].seen[1] = limit - 1)
                 => MonthUsage(t) >= limit + 1

\* Two requests of one tenant both read limit - 1, both inserted their job,
\* and the month count stands at limit + 1.
C11_Witness ==
  \E t \in Tenants : \E c1, c2 \in Clients :
    /\ c1 # c2
    /\ PlanLimit(tenants[t].subscription_plan, AiFeature) = FreeLimit
    /\ ClientOf(c1, t) /\ Inserted(c1) /\ gw[c1][1].seen = Some(FreeLimit - 1)
    /\ ClientOf(c2, t) /\ Inserted(c2) /\ gw[c2][1].seen = Some(FreeLimit - 1)
    /\ MonthUsage(t) = FreeLimit + 1

\* ------------------------------------------------------------------ C12
\* C12: a request whose prompt fails validation (empty, or longer than
\* 10,000 characters) never creates a job row and never reaches a provider,
\* in the synchronous handler and in the streaming handler alike.
C12_RejectedCreatesNothing ==
  \A r \in Reqs :
    (req[r] # Null /\ ~req[r][1].promptOk)
    => /\ ~HasJob(r)
       /\ inserts[r] = 0
       /\ generateCalls[r] = 0

\* ------------------------------------------------------------ C13 .. C17
OmitsModel(r) == req[r] # Null /\ req[r][1].model = NoModel
\* the configured assignment list of the host's hardware category
ConfiguredList == AssignedModels(modelConfig, Category(hardwareInfo))
\* the names the loaded configuration defines
ConfiguredNames ==
  {RegistrationList(modelConfig)[i].name :
     i \in DOMAIN RegistrationList(modelConfig)}
Registered == boot.pc \in {"assign", "ready"}

\* C13: at any time after startup, also after the cached assignment list has
\* expired, a request that omits the model resolves to the first entry of the
\* configured assignment list of the host's hardware category.
C13_DefaultFollowsAssignment ==
  \A r \in Reqs :
    (boot.pc = "ready" /\ OmitsModel(r) /\ Resolved(r) /\ ConfiguredList # <<>>)
    => sel[r].name[1] = ConfiguredList[1]

\* C14: a request that omits the model never resolves to an undefined model;
\* when the assignment list is empty it resolves to the fixed default
\* 'gpt-3.5-turbo'.
C14_EmptyListFallsBack ==
  \A r \in Reqs :
    (boot.pc = "ready" /\ OmitsModel(r) /\ Resolved(r))
    => /\ sel[r].name[1] # Undefined
       /\ ConfiguredList = <<>> => sel[r].name[1] = DefaultModel

\* C15: the hardware category is determined by whether a GPU is present and
\* by its memory in whole GB: no GPU or 0 GB gives cpu_only, 1..4 GB gpu_4gb,
\* 5..8 GB gpu_8gb, more than 8 GB gpu_16gb.
C15_CategoryTable ==
  category # Null =>
    LET gpu == hardwareInfo.gpu
        mem == IF gpu = Null THEN 0 ELSE gpu[1].memory
    IN /\ (gpu = Null \/ mem = 0) => category = Some("cpu_only")
       /\ (gpu # Null /\ mem >= 1 /\ mem <= 4) => category = Some("gpu_4gb")
       /\ (gpu # Null /\ mem >= 5 /\ mem <= 8) => category = Some("gpu_8gb")
       /\ (gpu # Null /\ mem > 8) => category = Some("gpu_16gb")

\* Startup classified a GPU of 4 GB, the upper end of the first GPU band.
C15_Witness ==
  /\ boot.pc = "ready"
  /\ hardwareInfo.gpu = Some([memory |-> 4])
  /\ category = Some("gpu_4gb")

\* C16: once registerModels has upserted the configuration, every configured
\* name has exactly one row in the registry, and that row carries the
\* provider, the tier and the cost of its spec, also when the row existed
\* before.
C16_UpsertRoundTrip ==
  Registered =>
    \A i \in DOMAIN RegistrationList(modelConfig) :
      LET m == RegistrationList(modelConfig)[i]
          rows == {row \in ai_models : row.name = m.name}
      IN /\ Cardinality(rows) = 1
         /\ \A row \in rows :
              /\ row.provider = m.provider
              /\ row.performance_tier = m.performance_tier
              /\ row.cost_per_token = m.cost_per_token

\* C17: after the startup registration every model of the registry that the
\* loaded configuration does not define is inactive.
C17_RemovedModelsInactive ==
  Registered =>
    \A row \in ai_models : row.name \notin ConfiguredNames => ~row.is_active

\* ------------------------------------------------------------------ C20
\* C20: a failing hardware detection does not end the process: startup goes
\* on, and the host is classified as having no GPU.
C20_DetectionFailureTolerated ==
  boot.detection = "failed" =>
    /\ boot.pc # "exited"
    /\ category # Null => category = Some("cpu_only")

\* ------------------------------------------------------------------ C18
\* C18: the purge never changes a tenant's current-month usage: every job row
\* it deletes was created before the start of the current month, so the
\* month's count of every tenant is the same before and after.
C18_PurgeKeepsMonthUsage ==
  [][(now' = now /\ DOMAIN ai_jobs' # DOMAIN ai_jobs
        /\ DOMAIN ai_jobs' \subseteq DOMAIN ai_jobs)
     => /\ \A id \in DOMAIN ai_jobs \ DOMAIN ai_jobs' :
             ai_jobs[id].created_at < startOfMonth(now)
        /\ \A t \in Tenants :
             CurrentUsage(ai_jobs', t, now) = CurrentUsage(ai_jobs, t, now)]_vars

\* ------------------------------------------------------------------ C19
\* C19: every job that has reached completed or failed, on the synchronous
\* path, the streaming path and the unavailable-model or -provider paths, has
\* a message on the channel ai_job_updates carrying its id and its terminal
\* status once its handler has finished.
C19_TerminalPublished ==
  \A r \in Reqs :
    (pc[r] = "done" /\ HasJob(r) /\ ai_jobs[r].status \in Terminal)
    => \E msg \in published :
         msg.jobId = r /\ msg.status = ai_jobs[r].status

\* C21: every job that enters processing or streaming eventually reaches
\* completed or failed, also when the provider never responds or stalls in the
\* middle of a stream.
C21_JobsTerminate ==
  \A r \in Reqs :
    (HasJob(r) /\ ai_jobs[r].status \in {"processing", "streaming"})
    ~> (HasJob(r) /\ ai_jobs[r].status \in Terminal)

\* C22: a job created with one tenant's identity is never returned, by
\* GET /jobs/:jobId or by GET /jobs, to a request that carries another tenant's
\* identity or none.
C22_TenantIsolation ==
  (jobsResp # Null /\ jobsResp[1].code = 200)
  => \A k \in DOMAIN jobsResp[1].data :
       /\ jobsResp[1].caller # Null
       /\ jobsResp[1].data[k].tenant_id = jobsResp[1].caller

\* C23: a provider generate call is made only for a request whose job row
\* exists, with status processing (synchronous path) or streaming; the row keeps
\* that status while the call is in flight; and on the synchronous path a row
\* becomes processing only from pending.
C23_CallHasJobInFlight ==
  /\ [](\A r \in Reqs :
          /\ generateCalls[r] > 0 => HasJob(r)
          /\ pc[r] = "p_generate" => HasJob(r) /\ ai_jobs[r].status = "processing"
          /\ pc[r] \in InFlightStream => HasJob(r) /\ ai_jobs[r].status = "streaming")
  /\ [][\A r \in Reqs :
          /\ generateCalls'[r] > generateCalls[r]
             => /\ r \in DOMAIN ai_jobs'
                /\ ai_jobs'[r].status =
                     IF IsProcess(r) THEN "processing" ELSE "streaming"
          /\ (r \in DOMAIN ai_jobs' /\ ai_jobs'[r].status = "processing"
              /\ ~(HasJob(r) /\ ai_jobs[r].status = "processing"))
             => HasJob(r) /\ ai_jobs[r].status = "pending"]_vars

\* the synchronous provider call has been made and answered, the row still
\* processing
C23_Witness ==
  \E r \in Reqs :
    /\ IsProcess(r) /\ pc[r] = "p_completed" /\ generateCalls[r] = 1
    /\ HasJob(r) /\ ai_jobs[r].status = "processing"

\* C24: every job that has become completed or failed (by the provider, or at
\* the resolution of its model or provider) is deleted by the purge once 30 days
\* have passed since it became terminal: a run of the purge leaves no terminal
\* job behind that became terminal more than 30 days before.
C24_TerminalJobsPurged ==
  [][purged' # purged
     => \A j \in DOMAIN ai_jobs' :
          ~(/\ ai_jobs'[j].status \in Terminal
            /\ terminalAt'[j] # Null
            /\ terminalAt'[j][1] < now' - RetentionHours)]_vars

\* C25: cleanupOldJobs never deletes a job that is pending, processing or
\* streaming, and never deletes a completed or failed job whose completion
\* timestamp is less than 30 days old.
C25_PurgeOnlyOldTerminal ==
  [][\A j \in DOMAIN ai_jobs \ DOMAIN ai_jobs' :
       /\ ai_jobs[j].status \notin {"pending", "processing", "streaming"}
       /\ ~(/\ ai_jobs[j].completed_at # Null
            /\ now - ai_jobs[j].completed_at[1] < RetentionHours)]_vars

\* a purge has deleted a job, and a job created more than 30 days ago that is
\* still pending, processing or streaming is still there
C25_Witness ==
  /\ purged # {}
  /\ \E j \in DOMAIN ai_jobs :
       /\ ai_jobs[j].status \in {"pending", "processing", "streaming"}
       /\ ai_jobs[j].created_at < now - RetentionHours

\* C26: after a run of updateModelAvailability every active model, also one
\* whose provider has no registered adapter, has a cached availability, and it
\* is the outcome of that run's probe of the model.
C26_AvailabilityRefreshed ==
  tasks.last["availability"] = "ok"
  => \A am \in ActiveModels(ai_models) :
       /\ am.name \in DOMAIN probed
       /\ am.name \in DOMAIN model_availability
       /\ model_availability[am.name] = probed[am.name]

\* C28: an exception raised in a periodic task is caught in its scheduled
\* callback: after any failed run the process is alive, all three tasks are
\* still scheduled, and each of them (the failed one included) runs again when
\* it is next due.
C28_TaskFailureContained ==
  (\E t \in TaskNames : tasks.failures[t] > 0)
  => /\ tasks.alive
     /\ \A u \in TaskNames :
          /\ u \in tasks.scheduled
          /\ tasks.runs[u] < MaxRuns => Due(u)

\* each of the three tasks has failed once and has then run to its end
C28_Witness ==
  \A t \in TaskNames : tasks.failures[t] >= 1 /\ tasks.last[t] = "ok"

\* C27: when the publish of the job update fails, the job's status and the
\* response are what they are when it succeeds: the job is completed and the
\* caller receives the result with 200.
C27_PublishFailureHarmless ==
  \A r \in Reqs :
    (/\ IsProcess(r) /\ pc[r] = "done" /\ result[r] # Null
     /\ \A msg \in published : msg.jobId # r)
    => /\ HasJob(r) /\ ai_jobs[r].status = "completed"
       /\ resp[r] = Some(Response(200, Null, Null,
            Some([jobId |-> r, response |-> result[r][1].response,
                  model |-> sel[r].name[1], cost |-> result[r][1].cost])))

\* a synchronous request has been answered after the provider's result, and
\* no message about its job is on the channel
C27_Witness ==
  \E r \in Reqs :
    /\ IsProcess(r) /\ pc[r] = "done" /\ result[r] # Null
    /\ published = {}
    /\ resp[r] # Null /\ resp[r][1].code = 200

\* the least integer k with 4 * k >= n
QuarterCeil(n) == CHOOSE k \in 0..n : 4 * k >= n /\ 4 * (k - 1) < n

\* the tokenCount of the last chunk event before position i (0 when none)
ChunkCountBefore(evs, i) ==
  LET before == {j \in 1..(i - 1) : evs[j].type = "chunk"}
  IN IF before = {} THEN 0
     ELSE evs[CHOOSE j \in before : \A m \in before : m <= j].tokenCount[1]

\* C29: within one streaming job the tokenCount of successive chunk events
\* never decreases: each chunk event adds ceil(length / 4) >= 1 for its
\* fragment to the count before it; and the total_tokens of the complete event
\* is the sum of these estimates, hence at least every chunk's tokenCount.
C29_TokenCountMonotone ==
  \A r \in Reqs :
    IsStream(r) =>
      LET evs == events[r]
      IN \A i \in DOMAIN evs :
           /\ evs[i].type = "chunk"
              => /\ QuarterCeil(Len(evs[i].content[1])) >= 1
                 /\ evs[i].tokenCount[1] =
                      ChunkCountBefore(evs, i) + QuarterCeil(Len(evs[i].content[1]))
                 /\ evs[i].tokenCount[1] >= ChunkCountBefore(evs, i)
           /\ evs[i].type = "complete"
              => /\ evs[i].tokenCount[1] = ChunkCountBefore(evs, i)
                 /\ \A j \in DOMAIN evs :
                      evs[j].type = "chunk"
                      => evs[j].tokenCount[1] <= evs[i].tokenCount[1]

\* a completed stream of two fragments of different lengths
C29_Witness ==
  \E r \in Reqs :
    /\ IsStream(r) /\ Len(events[r]) = 4
    /\ events[r][2].type = "chunk" /\ events[r][3].type = "chunk"
    /\ Len(events[r][2].content[1]) # Len(events[r][3].content[1])
    /\ events[r][4].type = "complete"
    /\ events[r][4].tokenCount[1] = 3

\* C30: when the requests of a tenant never overlap and the plan's limit is
\* finite, the number of jobs created for the tenant in the current month (the
\* jobs of the month already there, and one per request that inserted its job)
\* never exceeds the limit.
C30_SerialQuotaHolds ==
  \A t \in Tenants :
    LET limit == PlanLimit(tenants[t].subscription_plan, AiFeature)
    IN limit # Unlimited
       => backlog[t] + Cardinality({c \in Clients : ClientOf(c, t) /\ Inserted(c)})
          <= limit

====
